---- MODULE Spec2Model ----
(***************************************************************************)
(* Model of the tic-tac-toe coordination server in src/index.js: the       *)
(* in-memory session table `games`, the socket.io rooms, and one action    *)
(* per socket event handler (createGame, joinGame, makeMove, sendMessage,  *)
(* requestRematch, disconnect, leaveGame).  Handlers run to completion on  *)
(* the event loop, so each handler is one atomic action.                   *)
(***************************************************************************)
EXTENDS Integers, Sequences, FiniteSets, TLC

VARIABLES
    games,      \* the session table: live game id -> session record
    order,      \* key order of `games` (what `for (gameId in games)` walks)
    rooms,      \* socket.io rooms: game id -> set of subscribed connections
    conn,       \* per connection: "new" (never connected), "open", "closed";
                \* "down" for all of them once the server process has exited
    ev,         \* the event handled last: its kind, sender and arguments
    out         \* what that handler emitted: set of messages

vars == <<games, order, rooms, conn, ev, out>>

----------------------------------------------------------------------------
(* Bounds of the model *)

\* cells 0..MaxCell are the cells clients aim moves at
MaxCell == 5

\* connections that ever reach the server
Conns == {"c1", "c2"}

\* values the random game id generator can produce
GameIds == {"game_a"}

\* the same, for the specification of several concurrent sessions
SessionConns == {"c1", "c2"}

SessionGameIds == {"game_a", "game_b"}

\* the same, for the specification of admission to one session
LobbyConns == {"c1", "c2", "c3"}

\* the display name each client sends ("" is the missing / falsy username)
UserNameOf(c) == IF c = "c1" THEN "" ELSE IF c = "c2" THEN "ann" ELSE "bob"

\* values of Math.floor(Math.random() * 1000) used in default names
RandNums == {"7"}

\* cell indexes clients send
CellInputs == 0..MaxCell

SessionCellInputs == {0}

\* one playable cell and one index outside the board
LobbyCellInputs == {0, 9}

\* chat texts clients send, as sequences of characters
Messages == { <<"h", "<", "b", ">">> }

----------------------------------------------------------------------------
(* JavaScript values *)

Null == "null"
Undefined == "undefined"

Cells == 0..8

Truthy(v) == v # Null /\ v # Undefined /\ v # ""

----------------------------------------------------------------------------
(* Board logic *)

winPatterns ==
    << <<0, 1, 2>>, <<3, 4, 5>>, <<6, 7, 8>>,
       <<0, 3, 6>>, <<1, 4, 7>>, <<2, 5, 8>>,
       <<0, 4, 8>>, <<2, 4, 6>> >>

PatternHit(board, k) ==
    LET a == winPatterns[k][1]
        b == winPatterns[k][2]
        c == winPatterns[k][3]
    IN  Truthy(board[a]) /\ board[a] = board[b] /\ board[a] = board[c]

\* variant: the last uniform triple in pattern order decides
checkWinnerLastHit(board) ==
    LET hits == {k \in 1..Len(winPatterns) : PatternHit(board, k)}
    IN  IF hits # {}
        THEN LET last == CHOOSE k \in hits : \A j \in hits : k >= j
             IN  board[winPatterns[last][1]]
        ELSE IF \E i \in Cells : board[i] = Null THEN Null ELSE "Tie"

checkWinner(board) ==
    LET hits == {k \in 1..Len(winPatterns) : PatternHit(board, k)}
    IN  IF hits # {}
        THEN LET first == CHOOSE k \in hits : \A j \in hits : k <= j
             IN  board[winPatterns[first][1]]
        ELSE IF \E i \in Cells : board[i] = Null THEN Null ELSE "Tie"

EmptyBoard == [i \in Cells |-> Null]

\* board[cellIndex] as JavaScript reads it: undefined outside the array
BoardAt(board, i) == IF i \in Cells THEN board[i] ELSE Undefined

----------------------------------------------------------------------------
(* Helpers over the session table *)

Live == DOMAIN games

IdsOf(players) == {players[k].id : k \in 1..Len(players)}

\* Array.prototype.findIndex(p => p.id === id), 1-based; 0 when absent
FindIndex(players, id) ==
    LET hits == {k \in 1..Len(players) : players[k].id = id}
    IN  IF hits = {} THEN 0 ELSE CHOOSE k \in hits : \A j \in hits : k <= j

\* Array.prototype.splice(k, 1)
Splice(players, k) ==
    SubSeq(players, 1, k - 1) \o SubSeq(players, k + 1, Len(players))

PlayerName(username, n) == IF Truthy(username) THEN username ELSE "Player_" \o n

\* message.replace(/</g, "&lt;").replace(/>/g, "&gt;")
RECURSIVE Escape(_)
Escape(s) ==
    IF s = << >> THEN << >>
    ELSE (IF Head(s) = "<" THEN <<"&", "l", "t", ";">>
          ELSE IF Head(s) = ">" THEN <<"&", "g", "t", ";">>
          ELSE <<Head(s)>>) \o Escape(Tail(s))

\* socket.emit(event, data) / one delivery of io.to(...).emit(event, data)
Msg(to, event, data) == [to |-> to, event |-> event, data |-> data]

\* io.to(room).emit(event, data): one delivery per subscribed connection
Broadcast(room, event, data) == {Msg(m, event, data) : m \in room}

\* an inbound event: socket.on(type, ...) called for connection c
Event(type, c, gameId) == [type |-> type, from |-> c, gameId |-> gameId]

MoveEvent(c, gameId, cellIndex) ==
    [type |-> "makeMove", from |-> c, gameId |-> gameId, cellIndex |-> cellIndex]

----------------------------------------------------------------------------
(* Initial state: the server is listening, nobody is connected *)

InitOver(C, G) ==
    /\ games = [g \in {} |-> Null]
    /\ order = << >>
    /\ rooms = [g \in G |-> {}]
    /\ conn = [c \in C |-> "new"]
    /\ ev = Event("listen", "", "")
    /\ out = {}

Init == InitOver(Conns, GameIds)

\* io.on('connection')
Connect(c) ==
    /\ conn[c] = "new"
    /\ conn' = [conn EXCEPT ![c] = "open"]
    /\ ev' = Event("connection", c, "")
    /\ out' = {}
    /\ UNCHANGED <<games, order, rooms>>

----------------------------------------------------------------------------
(* createGame *)

NewPlayer(c, playerName, symbol) ==
    [id |-> c, username |-> playerName, symbol |-> symbol, disconnected |-> FALSE]

\* the record stored by createGame.  It has no winner field yet: the handlers
\* only test the field for truthiness and copy it into payloads, so the unset
\* field and the null written by a rematch are one value here, Null ("none")
NewGame(c, playerName) ==
    [players |-> << NewPlayer(c, playerName, "X") >>,
     board |-> EmptyBoard,
     currentPlayer |-> "X",
     status |-> "waiting",
     winner |-> Null]

\* gameId is the random id, n the random number of the default name
createGame(c, gameId, username, n) ==
    /\ conn[c] = "open"
    /\ ev' = Event("createGame", c, gameId)
    /\ LET playerName == PlayerName(username, n)
       IN  /\ games' = [g \in Live \cup {gameId} |->
                          IF g = gameId THEN NewGame(c, playerName) ELSE games[g]]
           /\ out' = {Msg(c, "gameCreated",
                          [success |-> TRUE, gameId |-> gameId,
                           username |-> playerName, board |-> games'[gameId].board])}
    /\ order' = IF gameId \in Live THEN order ELSE Append(order, gameId)
    /\ rooms' = [rooms EXCEPT ![gameId] = @ \cup {c}]
    /\ UNCHANGED conn

----------------------------------------------------------------------------
(* joinGame *)

JoinSymbol == "O"

\* variant: the full check is off by one (> 2 for >= 2)
JoinRefusalOffByOne(gameId) ==
    IF gameId \notin Live THEN "Game not found. Please check the Game ID."
    ELSE IF Len(games[gameId].players) > 2
    THEN "Game is full. Please create a new game."
    ELSE ""

\* the error joinGame answers with, "" when the join is admitted
JoinRefusal(gameId) ==
    IF gameId \notin Live THEN "Game not found. Please check the Game ID."
    ELSE IF Len(games[gameId].players) >= 2
    THEN "Game is full. Please create a new game."
    ELSE ""

joinGame(c, gameId, username, n) ==
    /\ conn[c] = "open"
    /\ ev' = Event("joinGame", c, gameId)
    /\ IF JoinRefusal(gameId) # ""
       THEN /\ out' = {Msg(c, "joinError", [error |-> JoinRefusal(gameId)])}
            /\ UNCHANGED <<games, order, rooms, conn>>
       ELSE /\ games' = [games EXCEPT
                            ![gameId].players =
                                Append(@, NewPlayer(c, PlayerName(username, n),
                                                    JoinSymbol)),
                            ![gameId].status = "in-progress"]
            /\ rooms' = [rooms EXCEPT ![gameId] = @ \cup {c}]
            /\ out' = Broadcast(rooms'[gameId], "gameStarted",
                                [players |-> games'[gameId].players,
                                 board |-> games'[gameId].board,
                                 currentPlayer |-> games'[gameId].currentPlayer,
                                 gameId |-> gameId])
                        \cup {Msg(c, "joinSuccess",
                                  [symbol |-> JoinSymbol, gameId |-> gameId])}
            /\ UNCHANGED <<order, conn>>

----------------------------------------------------------------------------
(* makeMove *)

\* variant: any participant may move, whoever holds the turn
HoldsTurnAnyPlayer(game, c) == FindIndex(game.players, c) # 0

\* players.find(p => p.id === socket.id) exists and holds the turn
HoldsTurn(game, c) ==
    LET k == FindIndex(game.players, c)
    IN  k # 0 /\ game.players[k].symbol = game.currentPlayer

\* variant: the turn is checked before the cell
MoveRefusalTurnFirst(c, gameId, cellIndex) ==
    IF gameId \notin Live THEN "Game not found"
    ELSE IF ~HoldsTurn(games[gameId], c) THEN "Not your turn"
    ELSE IF BoardAt(games[gameId].board, cellIndex) # Null THEN "Space already taken"
    ELSE ""

\* the error makeMove answers with, "" when the move is accepted
MoveRefusal(c, gameId, cellIndex) ==
    IF gameId \notin Live THEN "Game not found"
    ELSE IF BoardAt(games[gameId].board, cellIndex) # Null THEN "Space already taken"
    ELSE IF ~HoldsTurn(games[gameId], c) THEN "Not your turn"
    ELSE ""

OtherSymbol(symbol) == IF symbol = "X" THEN "O" ELSE "X"

\* the record after an accepted move
ApplyMove(game, cellIndex) ==
    LET board == [game.board EXCEPT ![cellIndex] = game.currentPlayer]
        winner == checkWinner(board)
    IN  IF Truthy(winner)
        THEN [game EXCEPT !.board = board, !.winner = winner]
        ELSE [game EXCEPT !.board = board,
                          !.currentPlayer = OtherSymbol(game.currentPlayer)]

makeMove(c, gameId, cellIndex) ==
    /\ conn[c] = "open"
    /\ ev' = MoveEvent(c, gameId, cellIndex)
    /\ IF MoveRefusal(c, gameId, cellIndex) # ""
       THEN /\ out' = {Msg(c, "moveError",
                           [error |-> MoveRefusal(c, gameId, cellIndex)])}
            /\ UNCHANGED <<games, order, rooms, conn>>
       ELSE /\ games' = [games EXCEPT ![gameId] = ApplyMove(@, cellIndex)]
            /\ out' = Broadcast(rooms[gameId], "moveMade",
                                [board |-> games'[gameId].board,
                                 winner |-> games'[gameId].winner,
                                 currentPlayer |-> games'[gameId].currentPlayer,
                                 gameId |-> gameId])
            /\ UNCHANGED <<order, rooms, conn>>

----------------------------------------------------------------------------
(* sendMessage *)

\* sender, senderId and the clock's timestamp are passed through to the
\* payloads untouched and are left out of them here
sendMessage(c, gameId, message) ==
    /\ conn[c] = "open"
    /\ ev' = Event("sendMessage", c, gameId)
    /\ IF gameId \notin Live
       THEN out' = {}
       ELSE LET safeMessage == Escape(message)
            IN  out' = Broadcast(rooms[gameId] \ {c}, "messageReceived",
                                 [gameId |-> gameId, message |-> safeMessage])
                       \cup {Msg(c, "messageSent",
                                 [gameId |-> gameId, sender |-> "You",
                                  message |-> safeMessage])}
    /\ UNCHANGED <<games, order, rooms, conn>>

----------------------------------------------------------------------------
(* requestRematch; the acknowledgment callback is delivered as "ack" *)

\* variant: the reset forgets to hand the turn back to X
ResetGameKeepsTurn(game) ==
    [game EXCEPT !.board = EmptyBoard,
                 !.winner = Null,
                 !.status = "in-progress"]

ResetGame(game) ==
    [game EXCEPT !.board = EmptyBoard,
                 !.currentPlayer = "X",
                 !.winner = Null,
                 !.status = "in-progress"]

requestRematch(c, gameId) ==
    /\ conn[c] = "open"
    /\ ev' = Event("requestRematch", c, gameId)
    /\ IF gameId \notin Live
       THEN /\ out' = {Msg(c, "ack", [error |-> "Game not found"])}
            /\ UNCHANGED <<games, order, rooms, conn>>
       ELSE /\ games' = [games EXCEPT ![gameId] = ResetGame(@)]
            /\ out' = Broadcast(rooms[gameId], "rematchAccepted",
                                [board |-> games'[gameId].board,
                                 currentPlayer |-> games'[gameId].currentPlayer,
                                 gameId |-> gameId])
                        \cup {Msg(c, "ack", [success |-> TRUE])}
            /\ UNCHANGED <<order, rooms, conn>>

----------------------------------------------------------------------------
(* disconnect and leaveGame *)

\* variant: the record is kept when its last player is removed
RemovePlayerKeepsEmpty(gameId, k) ==
    [games EXCEPT ![gameId].players = Splice(@, k)]

\* variant: the leaving connection is also taken out of every other session
\* that keeps a player
RemovePlayerEverywhere(gameId, k) ==
    LET id == games[gameId].players[k].id
        rest == Splice(games[gameId].players, k)
        others(g) == SelectSeq(games[g].players, LAMBDA p : p.id # id)
        kept == IF Len(rest) > 0 THEN Live ELSE Live \ {gameId}
    IN  [g \in kept |->
            IF g = gameId THEN [games[g] EXCEPT !.players = rest]
            ELSE IF Len(others(g)) > 0 THEN [games[g] EXCEPT !.players = others(g)]
            ELSE games[g]]

\* the table after players.splice(k, 1) on gameId, the record deleted when
\* no player is left
RemovePlayer(gameId, k) ==
    LET rest == Splice(games[gameId].players, k)
    IN  IF Len(rest) > 0
        THEN [games EXCEPT ![gameId].players = rest]
        ELSE [g \in Live \ {gameId} |-> games[g]]

\* key order of the table after the same removal
RemoveKey(gameId, k) ==
    IF Len(games[gameId].players) > 1
    THEN order
    ELSE SelectSeq(order, LAMBDA g : g # gameId)

\* io.to(game.players[0].id).emit('playerLeft') after the removal; a socket
\* id that is not connected receives nothing
PlayerLeft(gameId, k, open) ==
    LET rest == Splice(games[gameId].players, k)
    IN  IF Len(rest) > 0 /\ rest[1].id \in open
        THEN {[to |-> rest[1].id, event |-> "playerLeft"]}
        ELSE {}

\* position in key order of the first game that lists c, 0 when none does
FirstGameOf(c) ==
    LET hits == {i \in 1..Len(order) : FindIndex(games[order[i]].players, c) # 0}
    IN  IF hits = {} THEN 0 ELSE CHOOSE i \in hits : \A j \in hits : i <= j

\* walks the table in key order and stops at the first match; the transport
\* drops the socket from every room
disconnect(c) ==
    /\ conn[c] = "open"
    /\ ev' = Event("disconnect", c, "")
    /\ conn' = [conn EXCEPT ![c] = "closed"]
    /\ rooms' = [g \in DOMAIN rooms |-> rooms[g] \ {c}]
    /\ LET i == FirstGameOf(c)
           open == {d \in DOMAIN conn : conn'[d] = "open"}
       IN  IF i = 0
           THEN /\ out' = {}
                /\ UNCHANGED <<games, order>>
           ELSE LET gameId == order[i]
                    k == FindIndex(games[gameId].players, c)
                IN  /\ games' = RemovePlayer(gameId, k)
                    /\ order' = RemoveKey(gameId, k)
                    /\ out' = PlayerLeft(gameId, k, open)

leaveGame(c, gameId) ==
    /\ conn[c] = "open"
    /\ ev' = Event("leaveGame", c, gameId)
    /\ rooms' = [rooms EXCEPT ![gameId] = @ \ {c}]
    /\ LET k == IF gameId \in Live THEN FindIndex(games[gameId].players, c) ELSE 0
           open == {d \in DOMAIN conn : conn[d] = "open"}
       IN  IF k = 0
           THEN /\ out' = {}
                /\ UNCHANGED <<games, order>>
           ELSE /\ games' = RemovePlayer(gameId, k)
                /\ order' = RemoveKey(gameId, k)
                /\ out' = PlayerLeft(gameId, k, open)
    /\ UNCHANGED conn

----------------------------------------------------------------------------
(* Events whose payload is not what the handler expects *)

\* events whose handler destructures its first argument in the parameter list
DestructuringEvents ==
    {"joinGame", "makeMove", "sendMessage", "requestRematch", "leaveGame"}

FaultEvent(type, c, gameId, fault) ==
    [type |-> type, from |-> c, gameId |-> gameId, fault |-> fault]

\* an exception that no try block catches leaves the listener; nothing in
\* index.js handles 'uncaughtException', so the process exits: the table and
\* the rooms are gone with it and every connection is lost
ProcessExit ==
    /\ games' = [g \in {} |-> Null]
    /\ order' = << >>
    /\ rooms' = [g \in DOMAIN rooms |-> {}]
    /\ conn' = [d \in DOMAIN conn |-> "down"]

\* the event arrives without a payload: ({ gameId, ... }) => destructures
\* undefined, which throws before the handler's try block is entered
NoPayload(c, type) ==
    /\ conn[c] = "open"
    /\ ev' = FaultEvent(type, c, Undefined, "no payload")
    /\ out' = {}
    /\ ProcessExit

\* sendMessage({ gameId }) without a message: message.replace throws inside
\* the try block, the catch logs it and nothing is sent
sendMessageNoText(c, gameId) ==
    /\ conn[c] = "open"
    /\ ev' = FaultEvent("sendMessage", c, gameId, "no message")
    /\ out' = {}
    /\ UNCHANGED <<games, order, rooms, conn>>

\* requestRematch({ gameId }) without acknowledgment callback: callback(...)
\* throws inside the try block, on a live game after the reset and the
\* broadcast; the catch calls callback again and that exception escapes.
\* Whether the broadcast leaves the process before it exits is not fixed.
requestRematchNoAck(c, gameId) ==
    /\ conn[c] = "open"
    /\ ev' = FaultEvent("requestRematch", c, gameId, "no callback")
    /\ IF gameId \notin Live
       THEN out' = {}
       ELSE out' \in {{}, Broadcast(rooms[gameId], "rematchAccepted",
                                    [board |-> ResetGame(games[gameId]).board,
                                     currentPlayer |-> ResetGame(games[gameId]).currentPlayer,
                                     gameId |-> gameId])}
    /\ ProcessExit

----------------------------------------------------------------------------
(* checkWinner called on its own: `ev` holds the call and its argument,    *)
(* `out` the value returned                                                *)

\* every array of 9 cells over null, 'X', 'O'
Boards == [Cells -> {Null, "X", "O"}]

Call(board) == [type |-> "checkWinner", board |-> board]

Return(value) == [event |-> "return", data |-> value]

BoardsInit ==
    /\ games = [g \in {} |-> Null]
    /\ order = << >>
    /\ rooms = [g \in GameIds |-> {}]
    /\ conn = [c \in Conns |-> "new"]
    /\ \E board \in Boards : ev = Call(board)
    /\ out = {}

Evaluate ==
    /\ ev.type = "checkWinner"
    /\ out = {}
    /\ out' = {Return(checkWinner(ev.board))}
    /\ UNCHANGED <<games, order, rooms, conn, ev>>

----------------------------------------------------------------------------
(* Specifications *)

NextOver(C, G, I) ==
    \/ \E c \in C : Connect(c)
    \/ \E c \in C, g \in G, n \in RandNums : createGame(c, g, UserNameOf(c), n)
    \/ \E c \in C, g \in G, n \in RandNums : joinGame(c, g, UserNameOf(c), n)
    \/ \E c \in C, g \in G, i \in I : makeMove(c, g, i)
    \/ \E c \in C, g \in G, m \in Messages : sendMessage(c, g, m)
    \/ \E c \in C, g \in G : requestRematch(c, g)
    \/ \E c \in C : disconnect(c)
    \/ \E c \in C, g \in G : leaveGame(c, g)

\* one session, two connections, moves over the cells 0..MaxCell
Next == NextOver(Conns, GameIds, CellInputs)

Spec == Init /\ [][Next]_vars

\* several concurrent sessions, few cells
SessionsInit == InitOver(SessionConns, SessionGameIds)

SessionsNext == NextOver(SessionConns, SessionGameIds, SessionCellInputs)

SessionsSpec == SessionsInit /\ [][SessionsNext]_vars

\* three connections competing for one session, few cells
LobbyInit == InitOver(LobbyConns, GameIds)

LobbyNext == NextOver(LobbyConns, GameIds, LobbyCellInputs)

LobbySpec == LobbyInit /\ [][LobbyNext]_vars

\* one session with well-formed and malformed events; an empty payload {}
\* gives the handler an undefined gameId
FaultNext ==
    \/ NextOver(Conns, GameIds, SessionCellInputs)
    \/ \E c \in Conns, type \in DestructuringEvents : NoPayload(c, type)
    \/ \E c \in Conns, n \in RandNums : joinGame(c, Undefined, Undefined, n)
    \/ \E c \in Conns : makeMove(c, Undefined, Undefined)
    \/ \E c \in Conns : requestRematch(c, Undefined)
    \/ \E c \in Conns, g \in GameIds : sendMessageNoText(c, g)
    \/ \E c \in Conns, g \in GameIds : requestRematchNoAck(c, g)

FaultSpec == Init /\ [][FaultNext]_vars

\* checkWinner applied to every board
BoardsNext == Evaluate

BoardsSpec == BoardsInit /\ [][BoardsNext]_vars

----------------------------------------------------------------------------
(* Vocabulary of the properties *)

Decided(game) == Truthy(game.winner)

MoveOn(g) == ev'.type = "makeMove" /\ ev'.gameId = g

MovesMadeTo(g, msgs) == {m \in msgs : m.event = "moveMade" /\ m.data.gameId = g}

PlayersOf(c) == {g \in Live : c \in IdsOf(games[g].players)}

\* some row, column or diagonal of the board is uniformly s
HasTriple(board, s) ==
    \E k \in 1..Len(winPatterns) : \A j \in 1..3 : board[winPatterns[k][j]] = s

----------------------------------------------------------------------------
(* C1: once a session's winner is set (X, O or Tie), every makeMove on that *)
(* session, by any requester and for any cell index, leaves the session    *)
(* record unchanged and broadcasts no moveMade.                            *)

C1_NoMoveOnceDecided ==
    [][\A g \in Live :
          (Decided(games[g]) /\ MoveOn(g))
              => /\ g \in DOMAIN games'
                 /\ games'[g] = games[g]
                 /\ MovesMadeTo(g, out') = {}]_vars

----------------------------------------------------------------------------
(* C2: makeMove on an existing session and an empty cell is accepted only  *)
(* when the requester is in the session's player list and its symbol       *)
(* equals currentPlayer, and then the requester's symbol is written into   *)
(* the cell; in every other case the requester alone receives "Not your   *)
(* turn" and the session table is unchanged.                               *)

C2_MoveNeedsTurn ==
    [][\A g \in Live :
          (MoveOn(g) /\ BoardAt(games[g].board, ev'.cellIndex) = Null)
              => LET k == FindIndex(games[g].players, ev'.from)
                 IN  IF k # 0 /\ games[g].players[k].symbol = games[g].currentPlayer
                     THEN /\ g \in DOMAIN games'
                          /\ games'[g].board[ev'.cellIndex]
                                = games[g].players[k].symbol
                     ELSE /\ out' = {Msg(ev'.from, "moveError",
                                         [error |-> "Not your turn"])}
                          /\ games' = games]_vars

\* a participant who does not hold the turn has just been refused
C2_Witness ==
    /\ ev.type = "makeMove"
    /\ ev.gameId \in Live
    /\ ev.from \in IdsOf(games[ev.gameId].players)
    /\ BoardAt(games[ev.gameId].board, ev.cellIndex) = Null
    /\ out = {Msg(ev.from, "moveError", [error |-> "Not your turn"])}

----------------------------------------------------------------------------
(* C3: in every live session, status is "finished" if and only if winner   *)
(* is set.                                                                 *)

C3_FinishedIffDecided ==
    \A g \in Live : (games[g].status = "finished") <=> Decided(games[g])

----------------------------------------------------------------------------
(* C4: in every live session, status is "waiting" if and only if the       *)
(* session has fewer than two participants.                                *)

C4_WaitingIffAlone ==
    \A g \in Live : (games[g].status = "waiting") <=> (Len(games[g].players) < 2)

----------------------------------------------------------------------------
(* C5: in every live session the first participant has symbol X and the    *)
(* second, when present, has symbol O.                                     *)

C5_FirstXSecondO ==
    \A g \in Live :
        /\ games[g].players[1].symbol = "X"
        /\ Len(games[g].players) >= 2 => games[g].players[2].symbol = "O"

----------------------------------------------------------------------------
(* C6: a session never has more than two participants; joinGame on an      *)
(* unknown id answers the requester alone with "Game not found", on a      *)
(* session with two participants with "Game is full", both leaving the     *)
(* session table, its key order and the rooms unchanged; a join on a       *)
(* session with one participant appends the requester, so of several       *)
(* connections joining the same one-participant session exactly the first  *)
(* succeeds.                                                               *)

JoinError(c, text) == {Msg(c, "joinError", [error |-> text])}

C6_JoinAdmission ==
    [][/\ \A h \in DOMAIN games' : Len(games'[h].players) <= 2
       /\ ev'.type = "joinGame" =>
            LET g == ev'.gameId
                c == ev'.from
            IN  IF g \notin Live
                THEN /\ out' = JoinError(c, "Game not found. Please check the Game ID.")
                     /\ UNCHANGED <<games, order, rooms>>
                ELSE IF Len(games[g].players) = 2
                THEN /\ out' = JoinError(c, "Game is full. Please create a new game.")
                     /\ UNCHANGED <<games, order, rooms>>
                ELSE /\ g \in DOMAIN games'
                     /\ Len(games'[g].players) = Len(games[g].players) + 1
                     /\ games'[g].players[Len(games'[g].players)].id = c
                     /\ \E m \in out' : m.to = c /\ m.event = "joinSuccess"]_vars

\* a third connection has just been refused by a session of two others
C6_Witness ==
    /\ ev.type = "joinGame"
    /\ ev.gameId \in Live
    /\ Len(games[ev.gameId].players) = 2
    /\ Cardinality(IdsOf(games[ev.gameId].players) \cup {ev.from}) = 3
    /\ out = JoinError(ev.from, "Game is full. Please create a new game.")

----------------------------------------------------------------------------
(* C7: createGame always yields an id that is not the id of a live         *)
(* session, so no live session record is replaced by a creation.           *)

C7_FreshGameId ==
    [][ev'.type = "createGame" =>
          /\ ev'.gameId \notin Live
          /\ \A g \in Live : g \in DOMAIN games' /\ games'[g] = games[g]]_vars

----------------------------------------------------------------------------
(* C8: a connection is a participant of at most one live session.          *)

C8_OneSessionPerConnection ==
    \A c \in DOMAIN conn : Cardinality(PlayersOf(c)) <= 1

----------------------------------------------------------------------------
(* C9: leaveGame or disconnect by a participant removes exactly that       *)
(* participant's entry from the session; if a participant remains the      *)
(* session stays live, otherwise unchanged, and the remaining participant  *)
(* is sent playerLeft; if none remains the record is deleted.  So every    *)
(* live session has at least one participant, and a join, move or rematch  *)
(* naming an id that is not live is answered "Game not found" and changes  *)
(* nothing.                                                                *)

WithoutAt(players, k) ==
    [j \in 1..(Len(players) - 1) |-> IF j < k THEN players[j] ELSE players[j + 1]]

Removed(g, c) ==
    LET rest == WithoutAt(games[g].players, FindIndex(games[g].players, c))
    IN  /\ IF Len(rest) > 0
           THEN /\ g \in DOMAIN games'
                /\ games'[g] = [games[g] EXCEPT !.players = rest]
                /\ conn'[rest[1].id] = "open"
                      => [to |-> rest[1].id, event |-> "playerLeft"] \in out'
           ELSE g \notin DOMAIN games'
        /\ DOMAIN games' \subseteq Live
        /\ \A h \in Live \ {g} : h \in DOMAIN games' /\ games'[h] = games[h]

NotFoundReply(type, c) ==
    IF type = "joinGame"
    THEN JoinError(c, "Game not found. Please check the Game ID.")
    ELSE IF type = "makeMove"
    THEN {Msg(c, "moveError", [error |-> "Game not found"])}
    ELSE {Msg(c, "ack", [error |-> "Game not found"])}

----------------------------------------------------------------------------
(* C10: requestRematch on a live session sets the board to nine empty      *)
(* cells, currentPlayer to X, winner to none and status to in-progress,    *)
(* leaves the player list unchanged and broadcasts the reset state to the  *)
(* room; on an unknown id it answers "Game not found" and changes nothing. *)

C10_RematchResets ==
    [][ev'.type = "requestRematch" =>
          LET g == ev'.gameId
              c == ev'.from
          IN  IF g \in Live
              THEN /\ games' = [games EXCEPT ![g] =
                                   [players |-> games[g].players,
                                    board |-> [i \in Cells |-> Null],
                                    currentPlayer |-> "X",
                                    status |-> "in-progress",
                                    winner |-> Null]]
                   /\ order' = order
                   /\ out' = {Msg(m, "rematchAccepted",
                                  [board |-> [i \in Cells |-> Null],
                                   currentPlayer |-> "X",
                                   gameId |-> g]) : m \in rooms[g]}
                             \cup {Msg(c, "ack", [success |-> TRUE])}
              ELSE /\ out' = {Msg(c, "ack", [error |-> "Game not found"])}
                   /\ UNCHANGED <<games, order, rooms>>]_vars

\* a rematch has just been granted on a session of two, both were told
C10_Witness ==
    /\ ev.type = "requestRematch"
    /\ ev.gameId \in Live
    /\ Len(games[ev.gameId].players) = 2
    /\ games[ev.gameId].board = EmptyBoard
    /\ Cardinality({m.to : m \in {n \in out : n.event = "rematchAccepted"}}) = 2

----------------------------------------------------------------------------
(* C11: for every event kind, a malformed or missing payload (a rematch    *)
(* request without acknowledgment callback included) never ends the        *)
(* process and never changes a session record: the fault is caught in the  *)
(* handler and at most an error is sent to the originating connection.     *)

Malformed(e) == e.gameId = Undefined \/ "fault" \in DOMAIN e

Contained ==
    /\ conn' = conn
    /\ games' = games
    /\ \A m \in out' : m.to = ev'.from /\ "error" \in DOMAIN m.data

C11_FaultsContained == [][Malformed(ev') => Contained]_vars

\* the faults that stay inside the handler: an empty payload {} (the lookup
\* of an undefined gameId finds no game), a chat without text
ThrowsPastHandler(e) ==
    "fault" \in DOMAIN e /\ e.fault \in {"no payload", "no callback"}

C11_CaughtFaults ==
    [][(Malformed(ev') /\ ~ThrowsPastHandler(ev')) => Contained]_vars

----------------------------------------------------------------------------
(* C12: for every board over empty, X, O, checkWinner returns s (X or O)   *)
(* if and only if some row, column or diagonal is uniformly s, returns     *)
(* 'Tie' if and only if no cell is empty and no triple is uniform, and     *)
(* returns none otherwise.                                                 *)

Returned == {m.data : m \in {n \in out : n.event = "return"}}

NoTriple(board) == ~HasTriple(board, "X") /\ ~HasTriple(board, "O")

Full(board) == \A i \in Cells : board[i] # Null

TieAndNoneRule(board, r) ==
    /\ r = "Tie" <=> (Full(board) /\ NoTriple(board))
    /\ r = Null <=> (~Full(board) /\ NoTriple(board))

C12_WinIffTriple ==
    ev.type = "checkWinner" =>
        \A r \in Returned :
            /\ \A s \in {"X", "O"} : r = s <=> HasTriple(ev.board, s)
            /\ TieAndNoneRule(ev.board, r)

(* C12, amended: checkWinner returns the symbol of the first uniform       *)
(* triple in the order rows, columns, diagonal 0-4-8, diagonal 2-4-6, when *)
(* there is one; so it returns X or O if and only if some triple is        *)
(* uniform, and on a board whose uniform triples carry one symbol only it  *)
(* returns s if and only if some triple is uniformly s.  'Tie' and none    *)
(* are as stated.                                                          *)

UniformAt(board, k, s) == \A j \in 1..3 : board[winPatterns[k][j]] = s

FirstTripleIs(board, s) ==
    \E k \in 1..Len(winPatterns) :
        /\ UniformAt(board, k, s)
        /\ \A j \in 1..(k - 1) : ~UniformAt(board, j, OtherSymbol(s))

C12_WinOfFirstTriple ==
    ev.type = "checkWinner" =>
        \A r \in Returned :
            /\ \A s \in {"X", "O"} : r = s <=> FirstTripleIs(ev.board, s)
            /\ r \in {"X", "O"} <=> ~NoTriple(ev.board)
            /\ \A s \in {"X", "O"} :
                  ~HasTriple(ev.board, OtherSymbol(s))
                      => (r = s <=> HasTriple(ev.board, s))
            /\ TieAndNoneRule(ev.board, r)

\* a board with a full row of O above a full row of X has been evaluated
C12_Witness ==
    /\ ev.type = "checkWinner"
    /\ UniformAt(ev.board, 1, "O")
    /\ HasTriple(ev.board, "X")
    /\ Returned = {"O"}

----------------------------------------------------------------------------
(* C13: makeMove applies its checks in the order session not found, cell   *)
(* taken, not your turn: a move aimed at a non-empty cell of a live        *)
(* session is answered "Space already taken" to the requester alone,       *)
(* whether the requester holds the turn, is the other player or is no      *)
(* participant, and the session record (board, currentPlayer, winner) is   *)
(* unchanged.                                                              *)

CellTakenReply(c) == {Msg(c, "moveError", [error |-> "Space already taken"])}

C13_CellTakenBeforeTurn ==
    [][\A g \in Live :
          (MoveOn(g) /\ ev'.cellIndex \in Cells
                     /\ games[g].board[ev'.cellIndex] # Null)
              => /\ out' = CellTakenReply(ev'.from)
                 /\ games' = games]_vars

\* a connection that is no participant has just aimed at a taken cell of a
\* session of two others
C13_Witness ==
    /\ ev.type = "makeMove"
    /\ ev.gameId \in Live
    /\ Len(games[ev.gameId].players) = 2
    /\ ev.from \notin IdsOf(games[ev.gameId].players)
    /\ ev.cellIndex \in Cells
    /\ games[ev.gameId].board[ev.cellIndex] # Null
    /\ out = CellTakenReply(ev.from)

----------------------------------------------------------------------------
(* C14: every accepted move writes the pre-move currentPlayer into the     *)
(* chosen cell; currentPlayer flips exactly when checkWinner of the new    *)
(* board is none, otherwise winner is set to that result and currentPlayer *)
(* stays.  Between two rematch resets two consecutive accepted moves made  *)
(* while winner is none are by different symbols: while winner is none no  *)
(* event but an accepted move or a rematch changes whose turn it is.       *)

AcceptedMove(g) ==
    MoveOn(g) /\ g \in DOMAIN games' /\ games'[g].board # games[g].board

RematchOn(g) == ev'.type = "requestRematch" /\ ev'.gameId = g

\* the first sentence: what one accepted move does to the record
MoveStepRule(g) ==
    LET board == [games[g].board EXCEPT ![ev'.cellIndex] = games[g].currentPlayer]
    IN  /\ ev'.cellIndex \in Cells
        /\ games[g].board[ev'.cellIndex] = Null
        /\ games'[g].board = board
        /\ IF checkWinner(board) = Null
           THEN /\ games'[g].currentPlayer = OtherSymbol(games[g].currentPlayer)
                /\ games'[g].winner = games[g].winner
           ELSE /\ games'[g].winner = checkWinner(board)
                /\ games'[g].currentPlayer = games[g].currentPlayer

\* the consequence: the turn is handed over by accepted moves only
TurnKept(g) ==
    (~Decided(games[g]) /\ g \in DOMAIN games' /\ ~RematchOn(g))
        => games'[g].currentPlayer = games[g].currentPlayer

C14_MovesAlternate ==
    [][\A g \in Live : IF AcceptedMove(g) THEN MoveStepRule(g) ELSE TurnKept(g)]_vars

\* the first sentence alone
C14_MoveStep ==
    [][\A g \in Live : AcceptedMove(g) => MoveStepRule(g)]_vars

----------------------------------------------------------------------------
(* C15: the board of every live session has exactly the 9 cells 0..8, and  *)
(* no event other than requestRematch on that session changes a cell that  *)
(* holds X or O, whatever cell index a makeMove carries; a cell only       *)
(* changes from empty to X or O.                                           *)

C15_CellsOnlyFill ==
    [][/\ \A g \in DOMAIN games' : DOMAIN games'[g].board = Cells
       /\ \A g \in Live \cap DOMAIN games' :
            ~RematchOn(g) =>
                \A i \in Cells :
                    IF games[g].board[i] # Null
                    THEN games'[g].board[i] = games[g].board[i]
                    ELSE games'[g].board[i] \in {Null, "X", "O"}]_vars

\* the same with a creation that lands on a live id set aside
C15_CellsOnlyFillButCreate ==
    [][/\ \A g \in DOMAIN games' : DOMAIN games'[g].board = Cells
       /\ \A g \in Live \cap DOMAIN games' :
            (~RematchOn(g) /\ ~(ev'.type = "createGame" /\ ev'.gameId = g)) =>
                \A i \in Cells :
                    IF games[g].board[i] # Null
                    THEN games'[g].board[i] = games[g].board[i]
                    ELSE games'[g].board[i] \in {Null, "X", "O"}]_vars

----------------------------------------------------------------------------
(* C16: after the disconnect of connection c has been handled no live      *)
(* session lists c as a participant, and every session whose only          *)
(* participant was c is deleted, whatever c created or joined before.      *)

C16_DisconnectClears ==
    [][ev'.type = "disconnect" =>
          /\ \A g \in DOMAIN games' : ev'.from \notin IdsOf(games'[g].players)
          /\ \A g \in Live :
                IdsOf(games[g].players) = {ev'.from} => g \notin DOMAIN games']_vars

----------------------------------------------------------------------------
(* C17: a join, move, chat, rematch or leave event that names session A    *)
(* leaves the record of every other live session B unchanged: B stays      *)
(* live with the same players, board, currentPlayer, status and winner.    *)

NamesSession ==
    ev'.type \in {"joinGame", "makeMove", "sendMessage", "requestRematch", "leaveGame"}

C17_OtherSessionsUntouched ==
    [][NamesSession =>
          \A B \in Live \ {ev'.gameId} :
              B \in DOMAIN games' /\ games'[B] = games[B]]_vars

\* a participant of two sessions has just left one of them, the one who
\* remains there was told, and the other session has two players and a mark
C17_Witness ==
    /\ ev.type = "leaveGame"
    /\ \E m \in out : m.event = "playerLeft"
    /\ \E B \in Live \ {ev.gameId} :
          /\ Len(games[B].players) = 2
          /\ ev.from \in IdsOf(games[B].players)
          /\ games[B].board # EmptyBoard

----------------------------------------------------------------------------
(* C18: in every live session the stored winner equals checkWinner of the  *)
(* board (an unset winner counting as none), so winner is none exactly     *)
(* when the board has no uniform triple and still has an empty cell; once  *)
(* set, the winner does not change to another value until a rematch        *)
(* reset; and the board never holds a complete triple of X and a complete  *)
(* triple of O at once.                                                    *)

WinnerIsEvaluation(game) ==
    /\ game.winner = checkWinner(game.board)
    /\ game.winner = Null
          <=> /\ ~HasTriple(game.board, "X")
              /\ ~HasTriple(game.board, "O")
              /\ \E i \in Cells : game.board[i] = Null
    /\ ~(HasTriple(game.board, "X") /\ HasTriple(game.board, "O"))

WinnerKept(g) ==
    (Decided(games[g]) /\ g \in DOMAIN games' /\ ~RematchOn(g))
        => games'[g].winner = games[g].winner

C18_WinnerTracksBoard ==
    [][/\ \A g \in DOMAIN games' : WinnerIsEvaluation(games'[g])
       /\ \A g \in Live : WinnerKept(g)]_vars

\* the first and the last part alone, as an invariant
C18_WinnerIsEvaluation ==
    \A g \in Live : WinnerIsEvaluation(games[g])

----------------------------------------------------------------------------
(* C19: no move is accepted on a session with fewer than two participants  *)
(* (waiting for the second one, or after one of two has left): every       *)
(* makeMove on it is refused and its board stays as it was.                *)

MoveErrorsTo(c, msgs) == {m \in msgs : m.event = "moveError" /\ m.to = c}

C19_NoMoveWhenAlone ==
    [][\A g \in Live :
          (MoveOn(g) /\ Len(games[g].players) < 2)
              => /\ g \in DOMAIN games'
                 /\ games'[g].board = games[g].board
                 /\ MoveErrorsTo(ev'.from, out') # {}]_vars

----------------------------------------------------------------------------
(* C20: a move or rematch event sent by a connection that is not in the    *)
(* session's player list leaves the session's board, currentPlayer, winner *)
(* and status unchanged.                                                   *)

GameState(game) == <<game.board, game.currentPlayer, game.winner, game.status>>

C20_OnlyParticipantsChangeState ==
    [][\A g \in Live :
          ((MoveOn(g) \/ RematchOn(g)) /\ ev'.from \notin IdsOf(games[g].players))
              => /\ g \in DOMAIN games'
                 /\ GameState(games'[g]) = GameState(games[g])]_vars

\* the move half alone
C20_OnlyParticipantsMove ==
    [][\A g \in Live :
          (MoveOn(g) /\ ev'.from \notin IdsOf(games[g].players))
              => /\ g \in DOMAIN games'
                 /\ GameState(games'[g]) = GameState(games[g])]_vars

====
